---- MODULE Spec2Model ----
(***************************************************************************)
(* Model of bulk-vcard-qr-codes, list+spreadsheet variant                  *)
(* (src/unnamed/part_000) and the QR-only variant (src/main.go).           *)
(*                                                                         *)
(* Go strings are modelled as sequences of one-character strings, so that  *)
(* strings.Trim, strings.ReplaceAll, strings.HasPrefix, slicing,           *)
(* strconv.ParseInt, strconv.FormatInt and filepath.Join are computed      *)
(* character by character.  Every character of the model's alphabets is   *)
(* ASCII, so byte length and rune length coincide.                         *)
(***************************************************************************)
EXTENDS Integers, Sequences, FiniteSets, TLC

VARIABLES
    pc,           \* position of the run inside mainAction (or the function under study)
    ret,          \* what mainAction returned: "running", "nil", "err", "panic"
    args,         \* c.Args().Slice(): the vCard paths given on the command line
    argIdx,       \* index of the next file argument
    dataFolder,   \* c.String("folder")
    lstFname,     \* c.String("list")
    outExcelFname,\* c.String("excel")
    listFile,     \* the list file on disk: NoFile, or its rows after UTF-16/TSV decoding
    fs,           \* vCard and PNG files on disk: path -> content
    contactLst,   \* the parsed contacts
    idx,          \* index of the contact being processed (1-based)
    calls,        \* the calls made so far to the components and libraries, in order
    orig,         \* argument of formatCellNo
    cellNo        \* result of formatCellNo

vars == <<pc, ret, args, argIdx, dataFolder, lstFname, outExcelFname, listFile,
          fs, contactLst, idx, calls, orig, cellNo>>

runVars == <<ret, args, argIdx, dataFolder, lstFname, outExcelFname, listFile,
             fs, contactLst, idx, calls>>

-----------------------------------------------------------------------------
(* Strings *)

Digits == <<"0", "1", "2", "3", "4", "5", "6", "7", "8", "9">>

DigitSet == {Digits[i] : i \in 1..Len(Digits)}

DigitChar(d) == Digits[d + 1]

DigitVal(c) == CHOOSE d \in 0..9 : Digits[d + 1] = c

\* strings.HasPrefix
HasPrefix(s, prefix) ==
    /\ Len(s) >= Len(prefix)
    /\ SubSeq(s, 1, Len(prefix)) = prefix

\* s[from:] for a 0-based Go offset
From(s, from) == SubSeq(s, from + 1, Len(s))

-----------------------------------------------------------------------------
(* formatCellNo *)

formatCellNo(o) ==
    IF Len(o) # 10
    THEN o
    ELSE IF ~HasPrefix(o, <<"0", "9">>)
    THEN o
    ELSE <<"+", "8", "8", "6", " ">> \o SubSeq(o, 2, 4) \o <<"-">>
         \o SubSeq(o, 5, 7) \o <<"-">> \o From(o, 7)

-----------------------------------------------------------------------------
(* strconv.ParseInt(s, 10, 64).  The strings of the model are short, so    *)
(* the value always fits 64 bits and only the syntax error can occur.      *)

RECURSIVE DecVal(_)
DecVal(s) ==
    IF s = <<>> THEN 0
    ELSE DecVal(SubSeq(s, 1, Len(s) - 1)) * 10 + DigitVal(s[Len(s)])

AllDigits(s) == \A i \in 1..Len(s) : s[i] \in DigitSet

ParseInt(s) ==
    LET signed == s # <<>> /\ s[1] \in {"+", "-"}
        neg    == s # <<>> /\ s[1] = "-"
        body   == IF signed THEN Tail(s) ELSE s
    IN  IF body = <<>> \/ ~AllDigits(body)
        THEN [err |-> TRUE, v |-> 0]
        ELSE [err |-> FALSE, v |-> IF neg THEN 0 - DecVal(body) ELSE DecVal(body)]

-----------------------------------------------------------------------------
(* filepath.Join(dir, name) on a Unix build: the first non-empty element   *)
(* and what follows it joined by "/", then filepath.Clean.                 *)

RECURSIVE SplitSlash(_, _)
SplitSlash(s, cur) ==
    IF s = <<>> THEN <<cur>>
    ELSE IF Head(s) = "/" THEN <<cur>> \o SplitSlash(Tail(s), <<>>)
    ELSE SplitSlash(Tail(s), Append(cur, Head(s)))

RECURSIVE JoinSlash(_)
JoinSlash(comps) ==
    IF comps = <<>> THEN <<>>
    ELSE IF Len(comps) = 1 THEN comps[1]
    ELSE comps[1] \o <<"/">> \o JoinSlash(Tail(comps))

DotDot == <<".", ".">>

RECURSIVE Resolve(_, _, _)
Resolve(comps, out, rooted) ==
    IF comps = <<>> THEN out
    ELSE LET c == Head(comps)
             rest == Tail(comps)
         IN  IF c = <<>> \/ c = <<".">>
             THEN Resolve(rest, out, rooted)
             ELSE IF c = DotDot
             THEN IF out # <<>> /\ out[Len(out)] # DotDot
                  THEN Resolve(rest, SubSeq(out, 1, Len(out) - 1), rooted)
                  ELSE IF rooted
                  THEN Resolve(rest, out, rooted)
                  ELSE Resolve(rest, Append(out, c), rooted)
             ELSE Resolve(rest, Append(out, c), rooted)

Clean(path) ==
    IF path = <<>> THEN <<".">>
    ELSE LET rooted == path[1] = "/"
             body   == JoinSlash(Resolve(SplitSlash(path, <<>>), <<>>, rooted))
         IN  IF rooted THEN <<"/">> \o body
             ELSE IF body = <<>> THEN <<".">>
             ELSE body

PlainConcat(dir, name) == dir \o <<"/">> \o name

Join(dir, name) ==
    IF dir # <<>> THEN Clean(dir \o <<"/">> \o name)
    ELSE IF name # <<>> THEN Clean(name)
    ELSE <<>>

-----------------------------------------------------------------------------
(* parseInputList.  listFile.rows is what csv.Reader yields for the file:  *)
(* one sequence of fields per non-empty line.  csv.Reader is used with     *)
(* FieldsPerRecord = 0, so the first record fixes the number of fields and *)
(* every later record with another number of fields is ErrFieldCount.      *)

defaultVCFExtension == <<".", "v", "c", "f">>

AnswerNo == 0
AnswerYes == 1
AnswerCustom == 2
AnswerCancel == -1

\* The columns the loop body reads: rec[0] .. rec[6].
NeededColumns == 7

NewContact(folder, rec, answer) ==
    [Class    |-> rec[2],
     Fullname |-> rec[3],
     VcfFname |-> Join(folder, rec[4] \o defaultVCFExtension),
     Cell     |-> formatCellNo(rec[5]),
     Email    |-> rec[6],
     Answer   |-> answer]

\* A faulty variant of the row test: a parser that also drops negative sequence
\* numbers.
SkipBySeq_PositiveOnly(rec) ==
    \/ rec[1] = <<"n", "o">>
    \/ ParseInt(rec[1]).err
    \/ ParseInt(rec[1]).v <= 0

SkipBySeq(rec) ==
    \/ rec[1] = <<"n", "o">>
    \/ ParseInt(rec[1]).err
    \/ ParseInt(rec[1]).v = 0

\* A faulty variant of the answer test: cancelled rows are kept.
SkipByAnswer_KeepCancelled(rec) == ParseInt(rec[7]).err

SkipByAnswer(rec) ==
    \/ ParseInt(rec[7]).err
    \/ ParseInt(rec[7]).v < 0

\* The loop of parseInputList over the remaining records; nFields is the
\* reader's field count (0 before the first record).  A record that passes the
\* sequence-number test and has fewer than seven fields makes rec[i] panic
\* with an index out of range.
RECURSIVE readRecords(_, _, _, _)
readRecords(folder, rows, nFields, lst) ==
    IF rows = <<>> THEN [lst |-> lst, err |-> "nil"]
    ELSE LET rec == Head(rows)
         IN  IF nFields # 0 /\ Len(rec) # nFields
             THEN [lst |-> <<>>, err |-> "ErrFieldCount"]
             ELSE IF SkipBySeq(rec)
             THEN readRecords(folder, Tail(rows), Len(rec), lst)
             ELSE IF Len(rec) < NeededColumns
             THEN [lst |-> <<>>, err |-> "panic"]
             ELSE IF SkipByAnswer(rec)
             THEN readRecords(folder, Tail(rows), Len(rec), lst)
             ELSE readRecords(folder, Tail(rows), Len(rec),
                              Append(lst, NewContact(folder, rec, ParseInt(rec[7]).v)))

parseInputList(folder, file) ==
    IF ~file.exists
    THEN [lst |-> <<>>, err |-> "open"]
    ELSE readRecords(folder, file.rows, 0, <<>>)

-----------------------------------------------------------------------------
(* Files.  fs maps the path of each vCard or PNG file on disk to its       *)
(* content, a sequence of lines; a line is a sequence of characters in     *)
(* which a literal of the program is kept as one element.  The operating   *)
(* system resolves "." and ".." and doubled separators, so the key of a    *)
(* file is its cleaned path.                                               *)

FsKey(path) == Clean(path)

Exists(files, path) == FsKey(path) \in DOMAIN files

ReadFile(files, path) == files[FsKey(path)]

WriteFile(files, path, content) ==
    [p \in DOMAIN files \cup {FsKey(path)} |->
        IF p = FsKey(path) THEN content ELSE files[p]]

\* One entry of the call log.  kind "call" is a call of the operating system
\* or of a library, kind "return" is a component of the program returning;
\* rec is the 1-based index of the contact the call is made for (0: none);
\* ok says whether the call succeeded (for a return: whether it returned nil).
Ev(kind, op, rec, target, ok) ==
    [kind |-> kind, op |-> op, rec |-> rec, target |-> target, ok |-> ok]

-----------------------------------------------------------------------------
(* generateVCard *)

NotePrefix == "NOTE:U+5EFA U+4E2D 42 U+5C46"
NoteSuffix == "U+73ED U+540C U+5B78"

EmailLine(cnt) == <<"EMAIL;TYPE=INTERNET;TYPE=WORK:">> \o cnt.Email
TelLine(cnt) == <<"TEL;TYPE=CELL:">> \o cnt.Cell

\* A faulty variant: the contact details are written whatever the answer is.
DetailLines_AnyAnswer(cnt) ==
    (IF cnt.Email # <<>> THEN <<EmailLine(cnt)>> ELSE <<>>)
    \o (IF cnt.Cell # <<>> THEN <<TelLine(cnt)>> ELSE <<>>)

DetailLines(cnt) ==
    IF cnt.Answer = AnswerYes
    THEN (IF cnt.Email # <<>> THEN <<EmailLine(cnt)>> ELSE <<>>)
         \o (IF cnt.Cell # <<>> THEN <<TelLine(cnt)>> ELSE <<>>)
    ELSE <<>>

\* The text built in the strings.Builder; nRunes[0] needs a non-empty name.
VCardText(cnt) ==
    << <<"BEGIN:VCARD">>,
       <<"VERSION:3.0">>,
       <<"FN:">> \o cnt.Fullname,
       <<"N:">> \o <<cnt.Fullname[1]>> \o <<";">> \o Tail(cnt.Fullname) \o <<";;;">> >>
    \o DetailLines(cnt)
    \o << <<NotePrefix>> \o cnt.Class \o <<NoteSuffix>>,
          <<"END:VCARD">> >>

\* generateVCard(ctx, cnt) for contact number rec; writeOK is whether
\* os.WriteFile succeeds.  An empty Fullname panics at nRunes[0].
generateVCard(cnt, rec, files, writeOK) ==
    IF cnt.Fullname = <<>>
    THEN [err |-> "panic", fs |-> files, calls |-> <<>>]
    ELSE IF ~writeOK
    THEN [err |-> "write", fs |-> files,
          calls |-> << Ev("call", "os.WriteFile", rec, cnt.VcfFname, FALSE),
                       Ev("return", "generateVCard", rec, cnt.VcfFname, FALSE) >>]
    ELSE [err |-> "nil", fs |-> WriteFile(files, cnt.VcfFname, VCardText(cnt)),
          calls |-> << Ev("call", "os.WriteFile", rec, cnt.VcfFname, TRUE),
                       Ev("return", "generateVCard", rec, cnt.VcfFname, TRUE) >>]

-----------------------------------------------------------------------------
(* geneateQRCodeByFile *)

CharsOf(s) == {s[i] : i \in 1..Len(s)}

RECURSIVE TrimLeft(_, _)
TrimLeft(s, cutset) ==
    IF s # <<>> /\ Head(s) \in cutset THEN TrimLeft(Tail(s), cutset) ELSE s

RECURSIVE TrimRight(_, _)
TrimRight(s, cutset) ==
    IF s # <<>> /\ s[Len(s)] \in cutset
    THEN TrimRight(SubSeq(s, 1, Len(s) - 1), cutset)
    ELSE s

\* strings.Trim(s, cutset): every leading and trailing character that is in
\* cutset is removed.
Trim(s, cutset) == TrimRight(TrimLeft(s, CharsOf(cutset)), CharsOf(cutset))

\* strings.TrimSuffix, which the code does not use.
TrimSuffix(s, suffix) ==
    IF Len(s) >= Len(suffix) /\ SubSeq(s, Len(s) - Len(suffix) + 1, Len(s)) = suffix
    THEN SubSeq(s, 1, Len(s) - Len(suffix))
    ELSE s

\* strings.ReplaceAll(s, old, new) for a non-empty old.
RECURSIVE ReplaceAll(_, _, _)
ReplaceAll(s, old, new) ==
    IF s = <<>> THEN <<>>
    ELSE IF HasPrefix(s, old) THEN new \o ReplaceAll(From(s, Len(old)), old, new)
    ELSE <<Head(s)>> \o ReplaceAll(Tail(s), old, new)

PngExtension == <<".", "p", "n", "g">>

\* outFname of geneateQRCodeByFile
OutFname(vcfFname) == Trim(vcfFname, defaultVCFExtension) \o PngExtension

\* What qrcode.WriteFile writes for a text.
PngOf(content) == << <<"PNG">> >> \o content

\* geneateQRCodeByFile(vcfFname) called for contact number rec (0: a file
\* argument); libOK is whether qrcode.WriteFile succeeds (it fails when the
\* text is too long for a QR code or the PNG cannot be written).  Its error
\* value is dropped.
geneateQRCodeByFile(vcfFname, rec, files, libOK) ==
    IF Trim(vcfFname, defaultVCFExtension) = <<>>
    THEN [err |-> "invalid", fs |-> files,
          calls |-> << Ev("return", "geneateQRCodeByFile", rec, vcfFname, FALSE) >>]
    ELSE IF ~Exists(files, vcfFname)
    THEN [err |-> "read", fs |-> files,
          calls |-> << Ev("call", "os.ReadFile", rec, vcfFname, FALSE),
                       Ev("return", "geneateQRCodeByFile", rec, vcfFname, FALSE) >>]
    ELSE IF ReadFile(files, vcfFname) = <<>>
    THEN [err |-> "empty", fs |-> files,
          calls |-> << Ev("call", "os.ReadFile", rec, vcfFname, TRUE),
                       Ev("return", "geneateQRCodeByFile", rec, vcfFname, FALSE) >>]
    ELSE [err |-> "nil",
          fs  |-> IF libOK
                  THEN WriteFile(files, OutFname(vcfFname), PngOf(ReadFile(files, vcfFname)))
                  ELSE files,
          calls |-> << Ev("call", "os.ReadFile", rec, vcfFname, TRUE),
                       Ev("call", "qrcode.WriteFile", rec, OutFname(vcfFname), libOK),
                       Ev("return", "geneateQRCodeByFile", rec, vcfFname, TRUE) >>]

-----------------------------------------------------------------------------
(* The spreadsheet builder: generateExcelFile, fillListSheet and           *)
(* genQRCodeSheet, one action per loop iteration or block of calls.  Every *)
(* call of the excelize library whose error the code looks at may fail;    *)
(* `fail` is the position of the failing call inside the block, 0 for      *)
(* none.  SetColWidth, SetRowHeight and SetCellStyle, whose errors are     *)
(* dropped, are logged as succeeding.                                      *)

RECURSIVE FormatNat(_)
FormatNat(n) ==
    IF n < 10 THEN <<DigitChar(n)>>
    ELSE FormatNat(n \div 10) \o <<DigitChar(n % 10)>>

\* strconv.FormatInt(n, 10)
FormatInt(n) == IF n < 0 THEN <<"-">> \o FormatNat(0 - n) ELSE FormatNat(n)

Cell(sheet, cell, val) == [sheet |-> sheet, cell |-> cell, val |-> val]

\* i0 is the 0-based loop index idx of the Go code.
ListRowID(i0) == FormatInt(i0 + 2)

\* A faulty variant: one grid row per contact pair instead of two.
GridRowID_OneRowPerPair(i0) == (i0 \div 2) + 1

GridRowID(i0) == (i0 \div 2) * 2 + 1

GridColID(i0) == IF i0 % 2 = 0 THEN <<"A">> ELSE <<"B">>

TxtCellID(i0) == GridColID(i0) \o FormatInt(GridRowID(i0))

ImgCellID(i0) == GridColID(i0) \o FormatInt(GridRowID(i0) + 1)

ImgFname(cnt) == ReplaceAll(cnt.VcfFname, defaultVCFExtension, PngExtension)

ExcelPath == Join(dataFolder, outExcelFname)

RetEv(op, ok) == Ev("return", op, 0, <<>>, ok)

\* mainAction returns err
Abort(log) ==
    /\ calls' = log
    /\ pc' = "done"
    /\ ret' = "err"

\* fillListSheet: the two header cells; a failure is returned.
FillHeader ==
    /\ pc = "fillHeader"
    /\ \E fail \in 0..2 :
        LET a1 == Ev("call", "SetCellValue", 0, Cell("Sheet1", <<"A", "1">>, <<"class">>), fail # 1)
            b1 == Ev("call", "SetCellValue", 0, Cell("Sheet1", <<"B", "1">>, <<"name">>), fail # 2)
            errRet == << RetEv("fillListSheet", FALSE), RetEv("generateExcelFile", FALSE) >>
        IN  IF fail = 1 THEN Abort(calls \o <<a1>> \o errRet) /\ UNCHANGED idx
            ELSE IF fail = 2 THEN Abort(calls \o <<a1, b1>> \o errRet) /\ UNCHANGED idx
            ELSE /\ calls' = calls \o <<a1, b1>>
                 /\ pc' = "fillRows"
                 /\ idx' = 1
                 /\ UNCHANGED ret
    /\ UNCHANGED <<args, argIdx, dataFolder, lstFname, outExcelFname, listFile,
                   fs, contactLst, orig, cellNo>>

\* fillListSheet: one iteration of the loop over the contacts; a failure
\* is logged and leaves the loop, and fillListSheet returns nil.
FillRow ==
    /\ pc = "fillRows"
    /\ idx <= Len(contactLst)
    /\ \E fail \in 0..2 :
        LET cnt == contactLst[idx]
            rowID == ListRowID(idx - 1)
            a == Ev("call", "SetCellValue", idx, Cell("Sheet1", <<"A">> \o rowID, cnt.Class), fail # 1)
            b == Ev("call", "SetCellValue", idx, Cell("Sheet1", <<"B">> \o rowID, cnt.Fullname), fail # 2)
            nilRet == << RetEv("fillListSheet", TRUE) >>
        IN  IF fail = 1
            THEN calls' = calls \o <<a>> \o nilRet /\ pc' = "sheetSetup" /\ UNCHANGED idx
            ELSE IF fail = 2
            THEN calls' = calls \o <<a, b>> \o nilRet /\ pc' = "sheetSetup" /\ UNCHANGED idx
            ELSE calls' = calls \o <<a, b>> /\ pc' = pc /\ idx' = idx + 1
    /\ UNCHANGED <<ret, args, argIdx, dataFolder, lstFname, outExcelFname, listFile,
                   fs, contactLst, orig, cellNo>>

\* fillListSheet: the loop is over, return nil.
FillListDone ==
    /\ pc = "fillRows"
    /\ idx > Len(contactLst)
    /\ calls' = Append(calls, RetEv("fillListSheet", TRUE))
    /\ pc' = "sheetSetup"
    /\ UNCHANGED <<ret, args, argIdx, dataFolder, lstFname, outExcelFname, listFile,
                   fs, contactLst, idx, orig, cellNo>>

\* genQRCodeSheet up to the loop: NewSheet, SetPageMargins, SetColWidth and
\* the two NewStyle calls; a failure is returned.
SheetSetup ==
    /\ pc = "sheetSetup"
    /\ \E fail \in 0..4 :
        LET block == << Ev("call", "NewSheet", 0, Cell("Sheet2", <<>>, <<>>), fail # 1),
                        Ev("call", "SetPageMargins", 0, Cell("Sheet2", <<>>, <<>>), fail # 2),
                        Ev("call", "SetColWidth", 0, Cell("Sheet2", <<"A", "B">>, FormatInt(36)), TRUE),
                        Ev("call", "NewStyle", 0, Cell("Sheet2", <<>>, <<"t", "x", "t">>), fail # 3),
                        Ev("call", "NewStyle", 0, Cell("Sheet2", <<>>, <<"i", "m", "g">>), fail # 4) >>
            made == IF fail = 0 THEN block
                    ELSE IF fail <= 2 THEN SubSeq(block, 1, fail)
                    ELSE SubSeq(block, 1, fail + 1)
            errRet == << RetEv("genQRCodeSheet", FALSE), RetEv("generateExcelFile", FALSE) >>
        IN  IF fail # 0 THEN Abort(calls \o made \o errRet) /\ UNCHANGED idx
            ELSE /\ calls' = calls \o made
                 /\ pc' = "grid"
                 /\ idx' = 1
                 /\ UNCHANGED ret
    /\ UNCHANGED <<args, argIdx, dataFolder, lstFname, outExcelFname, listFile,
                   fs, contactLst, orig, cellNo>>

\* The calls of one iteration of the loop of genQRCodeSheet for the contact
\* cnt at 0-based index i0, when none fails.
GridCalls(i0, cnt, txtOK, imgOK) ==
    (IF i0 % 2 = 0
     THEN << Ev("call", "SetRowHeight", i0 + 1,
                Cell("Sheet2", FormatInt(GridRowID(i0) + 1), FormatInt(155)), TRUE) >>
     ELSE <<>>)
    \o << Ev("call", "SetCellStyle", i0 + 1, Cell("Sheet2", TxtCellID(i0), <<"t", "x", "t">>), TRUE),
          Ev("call", "SetCellValue", i0 + 1,
             Cell("Sheet2", TxtCellID(i0), cnt.Class \o <<" ">> \o cnt.Fullname), txtOK),
          Ev("call", "SetCellStyle", i0 + 1, Cell("Sheet2", ImgCellID(i0), <<"i", "m", "g">>), TRUE),
          Ev("call", "AddPicture", i0 + 1, Cell("Sheet2", ImgCellID(i0), ImgFname(cnt)), imgOK) >>

\* genQRCodeSheet: one iteration of the loop over the contacts.  AddPicture
\* fails when the image file is missing (and may fail otherwise); a failure
\* is logged and leaves the loop, and genQRCodeSheet returns nil.
GridCell ==
    /\ pc = "grid"
    /\ idx <= Len(contactLst)
    /\ \E txtOK, picOK \in BOOLEAN :
        LET cnt == contactLst[idx]
            imgOK == picOK /\ Exists(fs, ImgFname(cnt))
            all == GridCalls(idx - 1, cnt, txtOK, imgOK)
            nilRet == << RetEv("genQRCodeSheet", TRUE) >>
        IN  IF ~txtOK
            THEN calls' = calls \o SubSeq(all, 1, Len(all) - 2) \o nilRet
                 /\ pc' = "save" /\ UNCHANGED idx
            ELSE IF ~imgOK
            THEN calls' = calls \o all \o nilRet /\ pc' = "save" /\ UNCHANGED idx
            ELSE calls' = calls \o all /\ pc' = pc /\ idx' = idx + 1
    /\ UNCHANGED <<ret, args, argIdx, dataFolder, lstFname, outExcelFname, listFile,
                   fs, contactLst, orig, cellNo>>

\* genQRCodeSheet: the loop is over, return nil.
GridDone ==
    /\ pc = "grid"
    /\ idx > Len(contactLst)
    /\ calls' = Append(calls, RetEv("genQRCodeSheet", TRUE))
    /\ pc' = "save"
    /\ UNCHANGED <<ret, args, argIdx, dataFolder, lstFname, outExcelFname, listFile,
                   fs, contactLst, idx, orig, cellNo>>

\* generateExcelFile: SaveAs, then mainAction returns what it returns.
SaveExcel ==
    /\ pc = "save"
    /\ \E saveOK \in BOOLEAN :
        /\ calls' = calls \o << Ev("call", "SaveAs", 0, Cell("", ExcelPath, <<>>), saveOK),
                                RetEv("generateExcelFile", saveOK) >>
        /\ fs' = IF saveOK THEN WriteFile(fs, ExcelPath, << <<"XLSX">> >>) ELSE fs
        /\ ret' = IF saveOK THEN "nil" ELSE "err"
    /\ pc' = "done"
    /\ UNCHANGED <<args, argIdx, dataFolder, lstFname, outExcelFname, listFile,
                   contactLst, idx, orig, cellNo>>

-----------------------------------------------------------------------------
(* mainAction *)

Finish(result) ==
    /\ pc' = "done"
    /\ ret' = result

\* One iteration of the loop over the file arguments.
DirectQR ==
    /\ pc = "args"
    /\ argIdx <= Len(args)
    /\ \E libOK \in BOOLEAN :
        LET r == geneateQRCodeByFile(args[argIdx], 0, fs, libOK)
        IN  /\ fs' = r.fs
            /\ calls' = calls \o r.calls
            /\ IF r.err # "nil"
               THEN Finish("err") /\ UNCHANGED argIdx
               ELSE argIdx' = argIdx + 1 /\ UNCHANGED <<pc, ret>>
    /\ UNCHANGED <<args, dataFolder, lstFname, outExcelFname, listFile,
                   contactLst, idx, orig, cellNo>>

\* After the file arguments: return nil without a list option, else
\* parseInputList.
ParseList ==
    /\ pc = "args"
    /\ argIdx > Len(args)
    /\ IF lstFname = <<>>
       THEN Finish("nil") /\ UNCHANGED <<contactLst, idx, calls>>
       ELSE LET r == parseInputList(dataFolder, listFile)
            IN  /\ contactLst' = r.lst
                /\ IF r.err = "panic"
                   THEN Finish("panic") /\ UNCHANGED <<idx, calls>>
                   ELSE /\ calls' = Append(calls, Ev("return", "parseInputList", 0, lstFname, r.err = "nil"))
                        /\ IF r.err # "nil"
                           THEN Finish("err") /\ UNCHANGED idx
                           ELSE pc' = "record" /\ idx' = 1 /\ UNCHANGED ret
    /\ UNCHANGED <<args, argIdx, dataFolder, lstFname, outExcelFname, listFile,
                   fs, orig, cellNo>>

\* The existence check of a custom vCard.
statCustom(cnt, rec, files) ==
    [err |-> IF Exists(files, cnt.VcfFname) THEN "nil" ELSE "stat",
     fs |-> files,
     calls |-> << Ev("call", "os.Stat", rec, cnt.VcfFname, Exists(files, cnt.VcfFname)) >>]

\* A faulty variant: the vCard is generated for a custom record too.
prepareVCard_AlwaysGenerate(cnt, rec, files, writeOK) ==
    generateVCard(cnt, rec, files, writeOK)

\* Lines 154-161: the check of a custom record or the generation of the vCard.
prepareVCard(cnt, rec, files, writeOK) ==
    IF cnt.Answer = AnswerCustom
    THEN statCustom(cnt, rec, files)
    ELSE generateVCard(cnt, rec, files, writeOK)

\* One iteration of the loop over the contacts.
ProcessContact ==
    /\ pc = "record"
    /\ idx <= Len(contactLst)
    /\ \E writeOK, libOK \in BOOLEAN :
        LET cnt == contactLst[idx]
            a == prepareVCard(cnt, idx, fs, writeOK)
            q == geneateQRCodeByFile(cnt.VcfFname, idx, a.fs, libOK)
        IN  IF a.err # "nil"
            THEN /\ fs' = a.fs
                 /\ calls' = calls \o a.calls
                 /\ Finish(IF a.err = "panic" THEN "panic" ELSE "err")
                 /\ UNCHANGED idx
            ELSE /\ fs' = q.fs
                 /\ calls' = calls \o a.calls \o q.calls
                 /\ IF q.err # "nil"
                    THEN Finish("err") /\ UNCHANGED idx
                    ELSE idx' = idx + 1 /\ UNCHANGED <<pc, ret>>
    /\ UNCHANGED <<args, argIdx, dataFolder, lstFname, outExcelFname, listFile,
                   contactLst, orig, cellNo>>

\* After the contacts: return nil without an excel option, else
\* generateExcelFile.
StartExcel ==
    /\ pc = "record"
    /\ idx > Len(contactLst)
    /\ IF outExcelFname = <<>>
       THEN Finish("nil")
       ELSE pc' = "fillHeader" /\ UNCHANGED ret
    /\ UNCHANGED <<args, argIdx, dataFolder, lstFname, outExcelFname, listFile,
                   fs, contactLst, idx, calls, orig, cellNo>>

\* A call of formatCellNo on its own.
FormatCellNo ==
    /\ pc = "formatCellNo"
    /\ cellNo' = formatCellNo(orig)
    /\ pc' = "done"
    /\ UNCHANGED <<orig>>
    /\ UNCHANGED runVars

\* A call of generateVCard on its own, for the contact at idx.
GenerateVCardCall ==
    /\ pc = "generateVCard"
    /\ \E writeOK \in BOOLEAN :
        LET r == generateVCard(contactLst[idx], idx, fs, writeOK)
        IN  /\ fs' = r.fs
            /\ calls' = calls \o r.calls
            /\ ret' = r.err
    /\ pc' = "done"
    /\ UNCHANGED <<args, argIdx, dataFolder, lstFname, outExcelFname, listFile,
                   contactLst, idx, orig, cellNo>>

ExcelNext ==
    \/ FillHeader
    \/ FillRow
    \/ FillListDone
    \/ SheetSetup
    \/ GridCell
    \/ GridDone
    \/ SaveExcel

-----------------------------------------------------------------------------
(* Inputs *)

NoFile == [exists |-> FALSE, rows |-> <<>>]

File(rows) == [exists |-> TRUE, rows |-> rows]

\* Sequences over S of length at most n
RECURSIVE SeqsUpTo(_, _)
SeqsUpTo(S, n) ==
    IF n = 0 THEN {<<>>}
    ELSE LET shorter == SeqsUpTo(S, n - 1)
         IN  shorter \cup {Append(q, x) : q \in shorter, x \in S}

Row(seq, class, name, id, cell, email, answer) ==
    <<seq, class, name, id, cell, email, answer>>

HeaderRow == Row(<<"n", "o">>, <<"c", "l", "a", "s", "s">>, <<"n", "a", "m", "e">>, <<"i", "d">>, <<"c", "e", "l", "l">>, <<"e", "m", "a", "i", "l">>, <<"a", "n", "s", "w", "e", "r">>)

SomeVCard == << <<"BEGIN:VCARD">>, <<"END:VCARD">> >>

EmptyFs == [p \in {} |-> <<>>]

\* The part of the state a specification of one function leaves alone.
IdleRun ==
    /\ ret = "running"
    /\ args = <<>>
    /\ argIdx = 1
    /\ dataFolder = <<"d">>
    /\ lstFname = <<>>
    /\ outExcelFname = <<>>
    /\ listFile = NoFile
    /\ fs = EmptyFs
    /\ contactLst = <<>>
    /\ idx = 1
    /\ calls = <<>>

IdleCell ==
    /\ orig = <<>>
    /\ cellNo = <<>>

-----------------------------------------------------------------------------
(* SpecCell: formatCellNo on strings of up to MaxCellLen characters: two   *)
(* leading characters, then the digits 2, 3, 4, ... and at most one other  *)
(* character at any position.                                              *)

MaxCellLen == 11

CellStr(n, a, b, p, c) ==
    [i \in 1..n |-> IF i = p THEN c
                    ELSE IF i = 1 THEN a
                    ELSE IF i = 2 THEN b
                    ELSE DigitChar((i - 1) % 10)]

CellInputs ==
    {CellStr(n, a, b, p, c) : n \in 0..MaxCellLen, a \in {"0", "1"}, b \in {"9", "8"},
                              p \in 0..MaxCellLen, c \in {"a", "-", "+"}}

InitCell ==
    /\ pc = "formatCellNo"
    /\ orig \in CellInputs
    /\ cellNo = <<>>
    /\ IdleRun

SpecCell == InitCell /\ [][FormatCellNo]_vars

\* C10: formatCellNo(s) is +886 XXX-XXX-XXX (the nine characters after the
\* leading 0, grouped 3-3-3) if and only if s is exactly 10 digits starting
\* with "09", every other string is returned verbatim, and formatCellNo is
\* idempotent.
TenDigits09(s) ==
    /\ Len(s) = 10
    /\ \A i \in 1..Len(s) : s[i] \in DigitSet
    /\ s[1] = "0"
    /\ s[2] = "9"

Pattern886(s) ==
    <<"+", "8", "8", "6", " ", s[2], s[3], s[4], "-", s[5], s[6], s[7], "-", s[8], s[9], s[10]>>

C10_Original ==
    pc = "done" =>
        /\ cellNo = IF TenDigits09(orig) THEN Pattern886(orig) ELSE orig
        /\ formatCellNo(cellNo) = cellNo

-----------------------------------------------------------------------------
(* SpecParse: parseInputList on list files of up to MaxRows rows.          *)

MaxRows == 2

ParseFolders == {<<"d">>, <<>>, <<"d", "/">>, <<".">>}

CellFor(id) == IF id = <<"a">> THEN <<"0", "9", "1", "2", "3", "4", "5", "6", "7", "8">> ELSE <<"1", "2">>

SkippedRows ==
    {Row(seq, <<"A">>, <<"B", "o">>, <<"a">>, <<"0", "9", "1", "2", "3", "4", "5", "6", "7", "8">>, <<"e">>, <<"1">>) : seq \in {<<"n", "o">>, <<"0">>, <<"x">>}}

CandidateRows ==
    {Row(seq, <<"A">>, <<"B", "o">>, id, CellFor(id), <<"e">>, answer) :
        seq \in {<<"7">>, <<"-", "1">>},
        id \in {<<"a">>, <<".", ".", "/", "b">>},
        answer \in {<<"0">>, <<"1">>, <<"2">>, <<"3">>, <<"-", "1">>, <<"x">>}}

ShortRows == {<<<<"0">>, <<"A">>, <<"B", "o">>>>, <<<<"7">>, <<"A">>, <<"B", "o">>>>}

ParseRows == SkippedRows \cup CandidateRows \cup ShortRows

InitParse ==
    /\ pc = "args"
    /\ ret = "running"
    /\ args = <<>>
    /\ argIdx = 1
    /\ dataFolder \in ParseFolders
    /\ lstFname = <<"l">>
    /\ outExcelFname = <<>>
    /\ listFile \in {NoFile} \cup {File(rows) : rows \in SeqsUpTo(ParseRows, MaxRows)}
    /\ fs = EmptyFs
    /\ contactLst = <<>>
    /\ idx = 1
    /\ calls = <<>>
    /\ IdleCell

SpecParse == InitParse /\ [][ParseList]_vars

Parsed == pc # "args"

\* Every row has the same number of columns, at least the seven the parser reads.
FullRows(rows) ==
    \A i \in 1..Len(rows) : Len(rows[i]) >= NeededColumns /\ Len(rows[i]) = Len(rows[1])

IsInt(s) == ~ParseInt(s).err

\* The records Make(row) of the rows that satisfy Keep, in the order of the rows
MapRows(rows, Keep(_), Make(_)) ==
    LET F[n \in 0..Len(rows)] ==
            IF n = 0 THEN <<>>
            ELSE F[n - 1] \o (IF Keep(rows[n]) THEN <<Make(rows[n])>> ELSE <<>>)
    IN  F[Len(rows)]

\* C3: parseInputList returns exactly the in-file-order subsequence of rows with
\* a positive integer sequence number and a non-negative integer response
\* status, each as one record with class, fullName, email and responseStatus
\* copied from columns 1, 2, 5 and 6, vcfPath <folder>/<column 3>.vcf and
\* cellPhone formatCellNo(column 4); every other row yields no record and does
\* not abort the parse.
C3_KeepOriginal(rec) ==
    /\ IsInt(rec[1]) /\ ParseInt(rec[1]).v > 0
    /\ IsInt(rec[7]) /\ ParseInt(rec[7]).v >= 0

C3_RecordOriginal(rec) ==
    [Class |-> rec[2], Fullname |-> rec[3],
     VcfFname |-> PlainConcat(dataFolder, rec[4] \o <<".", "v", "c", "f">>),
     Cell |-> formatCellNo(rec[5]), Email |-> rec[6], Answer |-> ParseInt(rec[7]).v]

C3_Original ==
    (Parsed /\ listFile.exists /\ FullRows(listFile.rows)) =>
        /\ ret = "running"
        /\ contactLst = MapRows(listFile.rows, C3_KeepOriginal, C3_RecordOriginal)

\* C3 as amended: the rows kept are those with a non-zero integer sequence
\* number (negative ones included) other than the header label, and vcfPath is
\* the cleaned path filepath.Join(folder, column 3 + ".vcf"), which is
\* <folder>/<column 3>.vcf when the folder is a clean path other than "." and
\* "/" and column 3 holds no separator.
C3_KeepAmended(rec) ==
    /\ IsInt(rec[1]) /\ ParseInt(rec[1]).v # 0
    /\ IsInt(rec[7]) /\ ParseInt(rec[7]).v >= 0

C3_RecordAmended(rec) ==
    [Class |-> rec[2], Fullname |-> rec[3],
     VcfFname |-> Clean(IF dataFolder = <<>> THEN rec[4] \o <<".", "v", "c", "f">>
                        ELSE PlainConcat(dataFolder, rec[4] \o <<".", "v", "c", "f">>)),
     Cell |-> formatCellNo(rec[5]), Email |-> rec[6], Answer |-> ParseInt(rec[7]).v]

C3_PlainFolder ==
    /\ dataFolder # <<>>
    /\ dataFolder = Clean(dataFolder)
    /\ dataFolder \notin {<<".">>, <<"/">>}

C3_PlainRows(rows) == \A i \in 1..Len(rows) : "/" \notin CharsOf(rows[i][4])

C3_Amended ==
    (Parsed /\ listFile.exists /\ FullRows(listFile.rows)) =>
        /\ ret = "running"
        /\ contactLst = MapRows(listFile.rows, C3_KeepAmended, C3_RecordAmended)
        /\ (C3_PlainFolder /\ C3_PlainRows(listFile.rows)) =>
              contactLst = MapRows(listFile.rows, C3_KeepAmended, C3_RecordOriginal)

\* A parse that kept a row with a negative sequence number, skipped another
\* row and cleaned a path.
C3_Witness ==
    /\ Parsed /\ listFile.exists /\ FullRows(listFile.rows)
    /\ Len(listFile.rows) = 2
    /\ Len(contactLst) = 1
    /\ \E i \in 1..2 : C3_KeepAmended(listFile.rows[i]) /\ ParseInt(listFile.rows[i][1]).v < 0
    /\ contactLst[1].VcfFname = <<"b", ".", "v", "c", "f">>

\* C4: parseInputList returns an error, and does not crash, whenever the file
\* cannot be opened or a row has fewer than seven columns, wherever the short
\* row is.  Stated for the short rows the parser reads the columns of: a short
\* row that is skipped on its sequence number is read no further (and returns no
\* error either when every row is as short).
C4_ReadsColumns(rec) == IsInt(rec[1]) /\ ParseInt(rec[1]).v # 0

C4_Original ==
    (Parsed /\ (~listFile.exists \/ \E i \in 1..Len(listFile.rows) :
                    Len(listFile.rows[i]) < 7 /\ C4_ReadsColumns(listFile.rows[i])))
        => ret = "err"

\* C11: every record returned by parseInputList has a responseStatus that is
\* Declined (0), Accepted (1) or Custom (2): a Cancelled record is never in the
\* list and no record carries a status outside the enumeration.
C11_Original ==
    Parsed => \A k \in 1..Len(contactLst) : contactLst[k].Answer \in {0, 1, 2}

\* C11 as amended: every record has a non-negative responseStatus, the integer
\* of column 6 of one of the rows, so a Cancelled (-1) record is never in the
\* list; a status above Custom, such as 3, is kept as it is.
C11_RowAnswers ==
    {ParseInt(listFile.rows[i][7]).v :
        i \in {j \in 1..Len(listFile.rows) :
                  Len(listFile.rows[j]) >= 7 /\ IsInt(listFile.rows[j][7])}}

C11_Amended ==
    Parsed =>
        \A k \in 1..Len(contactLst) :
            /\ contactLst[k].Answer >= 0
            /\ contactLst[k].Answer # -1
            /\ contactLst[k].Answer \in C11_RowAnswers

\* A list read from a file with a cancelled row, holding a record of status 3.
C11_Witness ==
    /\ Parsed
    /\ -1 \in C11_RowAnswers
    /\ Len(contactLst) = 1
    /\ contactLst[1].Answer = 3

-----------------------------------------------------------------------------
(* SpecVCard: generateVCard on one contact, with names of up to MaxNameLen *)
(* characters and answers 0 .. MaxAnswer, over a missing or an existing    *)
(* vCard file.                                                             *)

MaxNameLen == 2

MaxAnswer == 3

VCardContacts ==
    {[Class |-> <<"A">>, Fullname |-> name, VcfFname |-> <<"d", "/", "a", ".", "v", "c", "f">>,
      Cell |-> cell, Email |-> email, Answer |-> answer] :
        name \in SeqsUpTo({"B", "o"}, MaxNameLen),
        cell \in {<<>>, formatCellNo(<<"0", "9", "1", "2", "3", "4", "5", "6", "7", "8">>)},
        email \in {<<>>, <<"e">>},
        answer \in 0..MaxAnswer}

OldVCard == << <<"old">> >>

InitVCard ==
    /\ pc = "generateVCard"
    /\ ret = "running"
    /\ args = <<>>
    /\ argIdx = 1
    /\ dataFolder = <<"d">>
    /\ lstFname = <<"l">>
    /\ outExcelFname = <<>>
    /\ listFile = NoFile
    /\ fs \in {EmptyFs, WriteFile(EmptyFs, <<"d", "/", "a", ".", "v", "c", "f">>, OldVCard)}
    /\ \E cnt \in VCardContacts : contactLst = <<cnt>>
    /\ idx = 1
    /\ calls = <<>>
    /\ IdleCell

SpecVCard == InitVCard /\ [][GenerateVCardCall]_vars

\* C5: for a contact with a non-empty fullName generateVCard writes the lines
\* BEGIN:VCARD, VERSION:3.0, FN:<fullName>, N:<first character>;<rest>;;;, an
\* EMAIL line iff the answer is Accepted and email is non-empty, a TEL line iff
\* the answer is Accepted and cellPhone is non-empty, the NOTE line and
\* END:VCARD, in that order; with any other answer there is neither an EMAIL
\* nor a TEL line.
C5_Lines(cnt) ==
    << <<"BEGIN:VCARD">>, <<"VERSION:3.0">>,
       <<"FN:">> \o cnt.Fullname,
       <<"N:", Head(cnt.Fullname), ";">> \o Tail(cnt.Fullname) \o <<";;;">> >>
    \o (IF cnt.Answer = 1 /\ cnt.Email # <<>>
        THEN << <<"EMAIL;TYPE=INTERNET;TYPE=WORK:">> \o cnt.Email >> ELSE <<>>)
    \o (IF cnt.Answer = 1 /\ cnt.Cell # <<>>
        THEN << <<"TEL;TYPE=CELL:">> \o cnt.Cell >> ELSE <<>>)
    \o << <<NotePrefix>> \o cnt.Class \o <<NoteSuffix>>, <<"END:VCARD">> >>

C5_NoDetails(text) ==
    \A i \in 1..Len(text) :
        text[i][1] \notin {"EMAIL;TYPE=INTERNET;TYPE=WORK:", "TEL;TYPE=CELL:"}

C5_VCard ==
    (pc = "done" /\ contactLst[1].Fullname # <<>> /\ ret = "nil") =>
        /\ Exists(fs, contactLst[1].VcfFname)
        /\ ReadFile(fs, contactLst[1].VcfFname) = C5_Lines(contactLst[1])
        /\ contactLst[1].Answer # 1 => C5_NoDetails(ReadFile(fs, contactLst[1].VcfFname))

\* An answer other than Accepted with an email and a phone number, written.
C5_Witness ==
    /\ pc = "done" /\ ret = "nil"
    /\ contactLst[1].Answer = AnswerCustom
    /\ contactLst[1].Email # <<>> /\ contactLst[1].Cell # <<>>
    /\ Len(contactLst[1].Fullname) = 2
    /\ Len(ReadFile(fs, contactLst[1].VcfFname)) = 6

-----------------------------------------------------------------------------
(* SpecQR: geneateQRCodeByFile on one file argument <prefix>.vcf, with a   *)
(* prefix of up to MaxPrefixLen characters; the vCard is missing, empty or *)
(* filled, and a PNG may already be at <prefix>.png.                       *)

MaxPrefixLen == 3

QRPrefixes == SeqsUpTo({"a", "c", ".", "/"}, MaxPrefixLen)

OldPng == << <<"PNG">>, <<"old">> >>

QRFiles(prefix) ==
    {[p \in D |-> IF p = FsKey(prefix \o PngExtension) THEN OldPng ELSE content] :
        D \in SUBSET {FsKey(prefix \o defaultVCFExtension), FsKey(prefix \o PngExtension)},
        content \in {<<>>, SomeVCard}}

InitQR ==
    /\ pc = "args"
    /\ ret = "running"
    /\ \E prefix \in QRPrefixes :
        /\ args = <<prefix \o defaultVCFExtension>>
        /\ fs \in QRFiles(prefix)
    /\ argIdx = 1
    /\ dataFolder = <<"d">>
    /\ lstFname = <<>>
    /\ outExcelFname = <<>>
    /\ listFile = NoFile
    /\ contactLst = <<>>
    /\ idx = 1
    /\ calls = <<>>
    /\ IdleCell

SpecQR == InitQR /\ [][DirectQR \/ ParseList]_vars

Called == calls # <<>>

Returned == calls[Len(calls)]

IsPng(content) == content # <<>> /\ content[1] = <<"PNG">>

\* C6: for an input path <prefix>.vcf the PNG is written to <prefix>.png, with
\* no character of <prefix> added, removed or changed.
C6_Original ==
    \A i \in 1..Len(calls) :
        calls[i].op = "qrcode.WriteFile" =>
            calls[i].target = TrimSuffix(args[1], <<".", "v", "c", "f">>) \o <<".", "p", "n", "g">>

\* C7: geneateQRCodeByFile returns nil only if a PNG was written: for an existing
\* file with content it writes a non-empty PNG and returns nil; for an empty file
\* and for a missing file it returns an error and no PNG is written or modified.
\* Stated for the paths whose PNG name the code derives as C6 says, so that
\* what decides it is the call of the QR library alone.
C7_NewPngs == {p \in DOMAIN fs : IsPng(fs[p]) /\ fs[p] # OldPng}

C7_NameAsIntended(path) ==
    /\ TrimSuffix(path, <<".", "v", "c", "f">>) # <<>>
    /\ Trim(path, <<".", "v", "c", "f">>) = TrimSuffix(path, <<".", "v", "c", "f">>)

C7_Original ==
    (Called /\ C7_NameAsIntended(args[1])) =>
        /\ Returned.ok => C7_NewPngs # {}
        /\ (Exists(fs, args[1]) /\ ReadFile(fs, args[1]) = SomeVCard) =>
              Returned.ok /\ C7_NewPngs # {}
        /\ (~Exists(fs, args[1]) \/ ReadFile(fs, args[1]) = <<>>) =>
              ~Returned.ok /\ C7_NewPngs = {}

-----------------------------------------------------------------------------
(* SpecSheet: generateExcelFile on lists of up to MaxContacts contacts,    *)
(* with any of their PNG files on disk.                                    *)

MaxContacts == 3

SheetContacts ==
    {[Class |-> <<"A">>, Fullname |-> <<"B", "o">>, VcfFname |-> <<"d", "/", "a", ".", "v", "c", "f">>,
      Cell |-> <<>>, Email |-> <<"e">>, Answer |-> AnswerYes],
     [Class |-> <<"B">>, Fullname |-> <<"C", "y">>, VcfFname |-> <<"d", "/", "m", ".", "v", "c", "f">>,
      Cell |-> <<>>, Email |-> <<>>, Answer |-> AnswerNo]}

SheetFiles ==
    {[p \in D |-> PngOf(SomeVCard)] : D \in SUBSET {<<"d", "/", "a", ".", "p", "n", "g">>, <<"d", "/", "m", ".", "p", "n", "g">>}}

InitSheet ==
    /\ pc = "fillHeader"
    /\ ret = "running"
    /\ args = <<>>
    /\ argIdx = 1
    /\ dataFolder = <<"d">>
    /\ lstFname = <<"l">>
    /\ outExcelFname = <<"x">>
    /\ listFile = NoFile
    /\ fs \in SheetFiles
    /\ contactLst \in SeqsUpTo(SheetContacts, MaxContacts)
    /\ idx = 1
    /\ calls = <<>>
    /\ IdleCell

SpecSheet == InitSheet /\ [][ExcelNext]_vars

CellWrites == {"SetCellValue", "AddPicture"}

\* C8: after the first failing SetCellValue or AddPicture call no further cell
\* of either sheet is written, and generateExcelFile returns an error.
C8_Original ==
    \A i \in 1..Len(calls) :
        (calls[i].op \in CellWrites /\ ~calls[i].ok) =>
            /\ \A j \in (i + 1)..Len(calls) : calls[j].kind = "return"
            /\ pc = "done" => ret = "err"

\* C9: in genQRCodeSheet contact i (0-based) has its text cell at row
\* 2*(i/2)+1 and its image cell in the row below, in column A if i is even and
\* B if i is odd; the cells of different contacts are pairwise distinct; and
\* for 3 contacts the grid is rows 1-2 of columns A and B and rows 3-4 of A.
GridWrites == {i \in 1..Len(calls) : calls[i].op \in CellWrites /\ calls[i].target.sheet = "Sheet2"}

C9_Column(i0) == IF i0 % 2 = 0 THEN "A" ELSE "B"

C9_Grid ==
    /\ \A i \in GridWrites :
          LET i0 == calls[i].rec - 1
              row == 2 * (i0 \div 2) + 1
          IN  calls[i].target.cell = <<C9_Column(i0)>> \o
                  FormatInt(IF calls[i].op = "SetCellValue" THEN row ELSE row + 1)
    /\ \A i, j \in GridWrites : i # j => calls[i].target.cell # calls[j].target.cell
    /\ (Len(contactLst) = 3 /\ Cardinality(GridWrites) = 6) =>
          {calls[i].target.cell : i \in GridWrites} =
              {<<"A", "1">>, <<"A", "2">>, <<"B", "1">>, <<"B", "2">>, <<"A", "3">>, <<"A", "4">>}

\* The grid of three contacts, complete.
C9_Witness ==
    /\ pc = "done"
    /\ Len(contactLst) = 3
    /\ Cardinality(GridWrites) = 6
    /\ \A i \in GridWrites : calls[i].ok

-----------------------------------------------------------------------------
(* Spec: mainAction, with up to one file argument, a list file of up to    *)
(* MaxListRows rows and the excel option on or off.                        *)

MaxListRows == 2

ListRows ==
    {HeaderRow,
     Row(<<"7">>, <<"A">>, <<"B", "o">>, <<"a">>, <<"0", "9", "1", "2", "3", "4", "5", "6", "7", "8">>, <<"e">>, <<"1">>),
     Row(<<"8">>, <<"B">>, <<"C", "y">>, <<"a">>, <<>>, <<>>, <<"2">>),
     Row(<<"9">>, <<"B">>, <<"D", "i">>, <<"m">>, <<>>, <<>>, <<"2">>),
     Row(<<"3">>, <<"C">>, <<>>, <<"b">>, <<>>, <<>>, <<"0">>)}

Init ==
    /\ pc = "args"
    /\ ret = "running"
    /\ args \in {<<>>, <<<<"d", "/", "m", ".", "v", "c", "f">>>>}
    /\ argIdx = 1
    /\ dataFolder = <<"d">>
    /\ lstFname \in {<<>>, <<"l">>}
    /\ outExcelFname \in {<<>>, <<"x">>}
    /\ listFile \in {NoFile} \cup {File(rows) : rows \in SeqsUpTo(ListRows, MaxListRows)}
    /\ fs \in {EmptyFs, WriteFile(EmptyFs, <<"d", "/", "m", ".", "v", "c", "f">>, <<>>), WriteFile(EmptyFs, <<"d", "/", "m", ".", "v", "c", "f">>, SomeVCard)}
    /\ contactLst = <<>>
    /\ idx = 1
    /\ calls = <<>>
    /\ IdleCell

Next ==
    \/ DirectQR
    \/ ParseList
    \/ ProcessContact
    \/ StartExcel
    \/ ExcelNext

Spec == Init /\ [][Next]_vars

\* C1: any failure at any step of mainAction aborts the run: after a step that
\* failed (the call of the QR rendering library included) no later step is
\* executed, only the enclosing components returning the error, and mainAction
\* returns nil only when every executed step succeeded.
C1_Original ==
    \A i \in 1..Len(calls) :
        ~calls[i].ok =>
            /\ \A j \in (i + 1)..Len(calls) : calls[j].kind = "return" /\ ~calls[j].ok
            /\ pc = "done" => ret # "nil"

\* C2: for every record, in list order: a Custom record never has its vCard
\* generated or its file written, and when its file is missing the run aborts
\* before the QR encoder is invoked for it or for a later record; any other
\* record has its vCard written before the QR encoder reads it; and in both
\* cases the QR encoder is invoked on vcfPath exactly once, after the check or
\* the write succeeded.
EvIdx(k, op) == {i \in 1..Len(calls) : calls[i].rec = k /\ calls[i].op = op}

QROps == {"geneateQRCodeByFile", "os.ReadFile", "qrcode.WriteFile"}

FileWrites == {"os.WriteFile", "qrcode.WriteFile", "SaveAs"}

C2_Custom(k) ==
    /\ EvIdx(k, "os.WriteFile") = {}
    /\ EvIdx(k, "generateVCard") = {}
    /\ \A i \in 1..Len(calls) :
          (calls[i].rec = k /\ calls[i].op \in FileWrites /\ calls[i].ok) =>
              FsKey(calls[i].target) # FsKey(contactLst[k].VcfFname)
    /\ Cardinality(EvIdx(k, "os.Stat")) <= 1
    /\ \A i \in EvIdx(k, "os.Stat") :
          /\ calls[i].target = contactLst[k].VcfFname
          /\ ~calls[i].ok =>
                /\ ret = "err"
                /\ \A j \in 1..Len(calls) : ~(calls[j].rec >= k /\ calls[j].op \in QROps)
    /\ \A q \in EvIdx(k, "geneateQRCodeByFile") \cup EvIdx(k, "os.ReadFile") :
          \E i \in EvIdx(k, "os.Stat") : i < q /\ calls[i].ok

C2_Generated(k) ==
    /\ EvIdx(k, "os.Stat") = {}
    /\ \A q \in EvIdx(k, "geneateQRCodeByFile") \cup EvIdx(k, "os.ReadFile") :
          \E w \in EvIdx(k, "os.WriteFile") :
              w < q /\ calls[w].ok /\ calls[w].target = contactLst[k].VcfFname

C2_Prepared(k) ==
    \E i \in EvIdx(k, "os.Stat") \cup EvIdx(k, "os.WriteFile") : calls[i].ok

C2_Order ==
    \A k \in 1..Len(contactLst) :
        /\ IF contactLst[k].Answer = 2 THEN C2_Custom(k) ELSE C2_Generated(k)
        /\ Cardinality(EvIdx(k, "geneateQRCodeByFile")) = IF C2_Prepared(k) THEN 1 ELSE 0
        /\ \A q \in EvIdx(k, "geneateQRCodeByFile") : calls[q].target = contactLst[k].VcfFname
        /\ \A k2 \in 1..Len(contactLst) :
              \A i \in EvIdx(k, "geneateQRCodeByFile"), j \in EvIdx(k2, "geneateQRCodeByFile") :
                  k < k2 => i < j

\* A finished run over a generated and then a custom record, both encoded.
C2_Witness ==
    /\ pc = "done" /\ ret = "nil"
    /\ Len(contactLst) = 2
    /\ contactLst[1].Answer = 1 /\ contactLst[2].Answer = 2
    /\ \A k \in 1..2 : Cardinality(EvIdx(k, "geneateQRCodeByFile")) = 1

-----------------------------------------------------------------------------
(* SpecImage: a list-driven run with spreadsheet output over a list of one *)
(* accepted record, whose vcf base name has up to MaxIdLen characters.     *)

MaxIdLen == 2

ImageIds == SeqsUpTo({"a", "c"}, MaxIdLen)

ImageFolders == {<<"d">>, <<"v">>, <<>>}

InitImage ==
    /\ pc = "args"
    /\ ret = "running"
    /\ args = <<>>
    /\ argIdx = 1
    /\ dataFolder \in ImageFolders
    /\ lstFname = <<"l">>
    /\ outExcelFname = <<"x">>
    /\ \E id \in ImageIds :
        listFile = File(<<HeaderRow, Row(<<"7">>, <<"A">>, <<"B", "o">>, id, <<>>, <<"e">>, <<"1">>)>>)
    /\ fs = EmptyFs
    /\ contactLst = <<>>
    /\ idx = 1
    /\ calls = <<>>
    /\ IdleCell

SpecImage == InitImage /\ [][ParseList \/ ProcessContact \/ StartExcel \/ ExcelNext]_vars

\* C12: for every record the parser can produce, the PNG path genQRCodeSheet
\* embeds (every ".vcf" of vcfPath replaced by ".png") is the path
\* geneateQRCodeByFile wrote for it (vcfPath with '.', 'v', 'c', 'f' trimmed
\* from both ends, plus ".png"), so the image embedded for a contact is the QR
\* code generated from its vCard.
C12_Original ==
    Parsed =>
        /\ \A k \in 1..Len(contactLst) :
              ImgFname(contactLst[k]) = OutFname(contactLst[k].VcfFname)
        /\ \A k \in 1..Len(contactLst) :
              \A i \in EvIdx(k, "qrcode.WriteFile"), j \in EvIdx(k, "AddPicture") :
                  calls[j].target.val = calls[i].target

====
